---- MODULE Spec2Model ----
(***************************************************************************)
(* tp_control::CoreInterface: an in-process registry of channels (named,   *)
(* type-tagged slots that hold the last value written) and signals         *)
(* (type-tagged broadcasts).                                               *)
(*                                                                         *)
(* Two revisions of the registry are modelled side by side; `revision`     *)
(* is fixed at construction:                                               *)
(*   "vector"     src/src/CoreInterface.cpp:181-401, listeners kept in     *)
(*                std::vector members, signal listeners per type key;      *)
(*   "collection" src/unnamed/part_000:1-181, listeners kept in            *)
(*                tp_utils::CallbackCollection members, one collection     *)
(*                (signalFired) for every signal type.                     *)
(*                                                                         *)
(* A call is a frame on `stack`: the call action runs the handler up to    *)
(* its listener loop, Invoke enters the next listener, CallbackReturn      *)
(* leaves it, Return hands the result to the caller.  A frame keeps what   *)
(* the registry held when the call was made (`before`), for the            *)
(* properties that compare a call's effect with the state it started in.   *)
(* It also keeps what it has told listeners (`log`) and the last thing each *)
(* listener has been told about each channel since it began, by itself or  *)
(* by a call made from inside it (`heard`).                                 *)
(* A listener may call back into the registry while it is being invoked    *)
(* (`nested`); the call it makes is a frame on top of the one that invoked  *)
(* it.  "vector" iterates its std::vector members in place: once a nested   *)
(* call has changed a vector that a loop below it is iterating, that loop's *)
(* iterators are invalid and what it does next is undefined (`undefined`):  *)
(* it may invoke any listener, stop, or end the program.                   *)
(*                                                                         *)
(* Every call is made by a thread; the registry remembers the thread that  *)
(* constructed it and asserts, in the operations that call checkThread(),  *)
(* that the caller is that thread.  A failed assertion ends the program    *)
(* (`fatal`).  ~CoreInterface ends the registry (`alive`).  A second       *)
(* registry of the same program, used without listeners, is `channels2`.   *)
(***************************************************************************)
EXTENDS Integers, Sequences, FiniteSets, TLC

\* ------------------------------------------------------------------ bounds
\* StringIDs 1..MaxKey are valid keys (type keys and name keys alike).
MaxKey   == 2
\* Slots the registry gets to create.
MaxSlots == 2
\* CoreInterfaceData objects the callers get to make.
MaxData  == 2
\* Listener registrations held at a time; also the number of listener objects.
MaxRegs  == 2
\* Threads of the program, the one that constructs the registries included.
MaxThreads == 2
\* Calls in progress at a time: a call, and the calls listeners make from inside it.
MaxDepth == 2

\* ------------------------------------------------------------- value sets
\* A default-constructed StringID (no string behind it).
InvalidKey == 0
\* nullptr, for m_payload and for CoreInterfaceData*.
Null == 0
\* std::this_thread::get_id() of the thread that constructs the registries.
ownerThread == 1

Keys      == 0..MaxKey
ValidKeys == 1..MaxKey
Listeners == 1..MaxRegs
Revisions == {"vector", "collection"}
Threads   == 1..MaxThreads

VARIABLES
  revision,                     \* which revision of the registry was built
  channels,                     \* Private::channels: type -> name -> Handle
  payloads,                     \* the CoreInterfacePayloadPrivate objects, by address
  dataObjects,                  \* per CoreInterfaceData object: who got it, times deleted
  channelListChangedCallbacks,  \* list-changed listeners, in registration order
  channelChangeCallbacks,       \* channel-changed listeners, in registration order
  signalCallbacks,              \* "vector": type -> signal listeners
  signalFired,                  \* "collection": signal listeners of every type
  stack,                        \* the calls in progress, innermost last
  held,                         \* Handles that handle() has returned to callers
  interest,                     \* "collection": the type each signalFired entry wants
  early,                        \* listeners registered once, before any handle() call,
                                \* and not unregistered since
  lcCount,                      \* per early listener: list-changed invocations received
  handleCalled,                 \* has handle() been called yet
  channels2,                    \* Private::channels of a second registry
  held2,                        \* Handles that the second registry has returned
  alive,                        \* the registry has not been destroyed
  fatal                         \* the failed assertion that ended the program, if any

registryVars == <<channels, payloads, channelListChangedCallbacks,
                  channelChangeCallbacks, signalCallbacks, signalFired>>
ghostVars == <<held, interest, early, lcCount, handleCalled>>
lifeVars == <<channels2, held2, alive, fatal>>
vars == <<revision, registryVars, dataObjects, stack, ghostVars, lifeVars>>

\* ---------------------------------------------------------------- helpers
EmptyMap == [x \in {} |-> Null]

\* m[k] := v, adding k to the map when it is new (std::unordered_map::operator[]).
MapPut(m, k, v) == [x \in (DOMAIN m) \cup {k} |-> IF x = k THEN v ELSE m[x]]

MapErase(m, k) == [x \in (DOMAIN m) \ {k} |-> m[x]]

\* tp_utils::StringID::isValid
StringID_isValid(k) == k # InvalidKey

\* The string behind key k >= 1: its binary digits, lowest first, as the
\* characters 1 and 2 (key 1 is <<2>>, key 2 is <<1, 2>>, key 3 is <<2, 2>>).
RECURSIVE KeyChars(_)
KeyChars(k) == IF k = 0 THEN <<>> ELSE <<1 + (k % 2)>> \o KeyChars(k \div 2)

\* tp_utils::StringID::toString: the key's string, empty for a key that is not valid
toString(k) == IF StringID_isValid(k) THEN KeyChars(k) ELSE <<>>

\* tp_utils::StringID(const std::string&): the key of a string, not valid for ""
RECURSIVE StringID(_)
StringID(str) ==
  IF str = <<>> THEN InvalidKey ELSE (Head(str) - 1) + 2 * StringID(Tail(str))

\* std::string operator<: the first character that differs decides, and a
\* string is less than every longer string it begins
RECURSIVE StringLess(_, _)
StringLess(a, b) ==
  IF b = <<>> THEN FALSE
  ELSE IF a = <<>> THEN TRUE
  ELSE IF Head(a) # Head(b) THEN Head(a) < Head(b)
  ELSE StringLess(Tail(a), Tail(b))

\* TPJSONString(j, key): the string member key of j, "" when j has none
TPJSONString(j, key) == IF key \in DOMAIN j THEN j[key] ELSE <<>>

\* CoreInterfaceHandle() : m_payload{nullptr}, default keys
DefaultHandle == [m_payload |-> Null, m_typeID |-> InvalidKey, m_nameID |-> InvalidKey]

\* CoreInterfaceHandle::operator==
HandleEq(a, b) == a.m_payload = b.m_payload

\* (a variant that sorts by the type key)
lessThan_byType(lhs, rhs) ==
  StringLess(toString(lhs.m_typeID), toString(rhs.m_typeID))

\* return lhs.nameID().toString() < rhs.nameID().toString();
lessThanCoreInterfaceHandle(lhs, rhs) ==
  StringLess(toString(lhs.m_nameID), toString(rhs.m_nameID))

\* CoreInterfaceHandle::data
HandleData(h) == IF h.m_payload # Null THEN payloads[h.m_payload].data ELSE Null

\* The (type, name) pairs that have an entry in Private::channels.
ChannelPairs == UNION {{<<t, n>> : n \in DOMAIN channels[t]} : t \in DOMAIN channels}

\* delete p (deleting nullptr does nothing)
Delete(objs, p) == IF p = Null THEN objs ELSE [objs EXCEPT ![p].deleted = @ + 1]

\* tpRemoveOne: erase the first element equal to x, if there is one
RECURSIVE tpRemoveOne(_, _)
tpRemoveOne(s, x) ==
  IF s = <<>> THEN <<>>
  ELSE IF Head(s) = x THEN Tail(s)
  ELSE <<Head(s)>> \o tpRemoveOne(Tail(s), x)

\* The index of the first element equal to x (0 when there is none).
RECURSIVE IndexOf(_, _)
IndexOf(s, x) ==
  IF s = <<>> THEN 0
  ELSE IF Head(s) = x THEN 1
  ELSE LET k == IndexOf(Tail(s), x) IN IF k = 0 THEN 0 ELSE k + 1

RemoveAt(s, k) ==
  IF k = 0 THEN s ELSE SubSeq(s, 1, k - 1) \o SubSeq(s, k + 1, Len(s))

\* Registrations currently held, over the three kinds of listener.
RECURSIVE SumLen(_, _)
SumLen(m, ks) ==
  IF ks = {} THEN 0
  ELSE LET k == CHOOSE x \in ks : TRUE IN Len(m[k]) + SumLen(m, ks \ {k})

NumRegs == Len(channelListChangedCallbacks) + Len(channelChangeCallbacks)
           + SumLen(signalCallbacks, DOMAIN signalCallbacks) + Len(signalFired)

\* ----------------------------------------------------------------- frames
Top == stack[Len(stack)]

\* What the registry holds, and the objects the callers have made.
Snapshot ==
  [channels |-> channels, payloads |-> payloads, dataObjects |-> dataObjects,
   channelListChangedCallbacks |-> channelListChangedCallbacks,
   channelChangeCallbacks |-> channelChangeCallbacks,
   signalCallbacks |-> signalCallbacks, signalFired |-> signalFired]

\* A call of op by thread th with its arguments: type key, name key, Handle,
\* data, callback.
Frame(th, op, t, n, h, d, cb) ==
  [thread |-> th,
   op |-> op, typeID |-> t, nameID |-> n, handle |-> h, data |-> d, cb |-> cb,
   i |-> 0, pc |-> "ret", log |-> <<>>, result |-> DefaultHandle,
   created |-> FALSE, json |-> EmptyMap, before |-> Snapshot,
   list |-> <<>>, undefined |-> FALSE, heard |-> {}]

\* A caller can enter the registry: the application when no call is in progress,
\* a listener (nested = TRUE) while it is being invoked.
CanCall(nested) ==
  /\ alive
  /\ fatal = <<>>
  /\ IF nested
     THEN stack # <<>> /\ Top.pc = "inCallback" /\ Len(stack) < MaxDepth
     ELSE stack = <<>>

\* void checkThread() { assert(ownerThread==std::this_thread::get_id()); }
checkThread(th) == th = ownerThread

\* The assertion of checkThread() fails in operation op: the program ends there.
Fatal(th, op) ==
  /\ fatal' = <<[thread |-> th, op |-> op, before |-> Snapshot]>>
  /\ UNCHANGED <<revision, registryVars, dataObjects, stack, ghostVars,
                 channels2, held2, alive>>

\* (a variant that runs the signal listeners last to first)
signalListeners_reversed(sc, t) ==
  LET l == IF revision = "vector" THEN sc[t] ELSE signalFired
  IN  [k \in 1..Len(l) |-> l[Len(l) + 1 - k]]

\* The listeners sendSignal runs over, sc being d->signalCallbacks.
\* "vector": for(const auto& c : d->signalCallbacks[typeID]); "collection": signalFired(...)
signalListeners(sc, t) ==
  IF revision = "vector" THEN sc[t] ELSE signalFired

\* tp_utils::CallbackCollection, called: it runs over the listeners it held when
\* it was called, in registration order; listeners added or removed while it
\* runs do not change the call in progress.
collectionListeners(f) == f.list

\* (a variant that runs the listeners last to first)
DispatchList_reversed(f) ==
  LET l == IF revision = "collection" THEN collectionListeners(f)
           ELSE CASE f.op = "handle"         -> channelListChangedCallbacks
                  [] f.op = "setChannelData" -> channelChangeCallbacks
                  [] f.op = "sendSignal"     -> signalListeners(signalCallbacks, f.typeID)
  IN  [k \in 1..Len(l) |-> l[Len(l) + 1 - k]]

\* The listeners the loop of call f runs over.  "vector": the std::vector member
\* itself, for(const auto& c : d->...Callbacks).  "collection": those of the
\* CallbackCollection that the call calls.
DispatchList(f) ==
  IF revision = "collection" THEN collectionListeners(f)
  ELSE CASE f.op = "handle"         -> channelListChangedCallbacks
         [] f.op = "setChannelData" -> channelChangeCallbacks
         [] f.op = "sendSignal"     -> signalListeners(signalCallbacks, f.typeID)

\* The data argument a channel-changed listener is invoked with:
\* "vector" reads handle.m_payload->data in every iteration of the loop,
\* "collection" reads it once, for the one call channelChanged(...).
channelChangedData(f) ==
  IF revision = "vector" THEN payloads[f.handle.m_payload].data ELSE f.data

\* (a variant that passes the name key where the type key belongs)
InvokeArgs_swapped(f) ==
  CASE f.op = "handle" ->
         [typeID |-> InvalidKey, nameID |-> InvalidKey, data |-> Null]
    [] f.op = "setChannelData" ->
         [typeID |-> f.handle.m_nameID, nameID |-> f.handle.m_typeID,
          data |-> channelChangedData(f)]
    [] f.op = "sendSignal" ->
         [typeID |-> f.typeID, nameID |-> InvalidKey, data |-> f.data]

\* The arguments of the listener invocation a frame makes next.
InvokeArgs(f) ==
  CASE f.op = "handle" ->
         [typeID |-> InvalidKey, nameID |-> InvalidKey, data |-> Null]
    [] f.op = "setChannelData" ->
         [typeID |-> f.handle.m_typeID, nameID |-> f.handle.m_nameID,
          data |-> channelChangedData(f)]
    [] f.op = "sendSignal" ->
         [typeID |-> f.typeID, nameID |-> InvalidKey, data |-> f.data]

\* return localHandle;  (localHandle refers to the entry of d->channels)
handleResult(ch, t, n) == ch[t][n]

\* The frame at its return statement, with the registry's channels being ch.
AtReturn(f, ch) ==
  [f EXCEPT !.pc = "ret",
            !.result = IF f.op = "handle" THEN handleResult(ch, f.typeID, f.nameID)
                       ELSE DefaultHandle]

\* (a variant that returns at once and leaves the listeners for later)
EnterLoop_deferred(f, list, ch) == AtReturn([f EXCEPT !.list = list], ch)

\* What listeners have last been told (told), once they have been told more
\* (more): a notification replaces the one the same listener had about the same
\* channel.
ToldSince(told, more) ==
  {x \in told : \A y \in more :
     ~(y.cb = x.cb /\ y.typeID = x.typeID /\ y.nameID = x.nameID)} \cup more

\* The frame entering its listener loop over list, or past it when list is empty.
EnterLoop(f, list, ch) ==
  IF list = <<>> THEN AtReturn([f EXCEPT !.list = list], ch)
  ELSE [f EXCEPT !.pc = "dispatch", !.i = 1, !.list = list]

\* The calls in progress once a nested call has changed the std::vector that the
\* loops of the calls op are iterating ("vector"): push_back and erase
\* invalidate the iterators those range-for loops hold.
Invalidated(op) ==
  [k \in 1..Len(stack) |->
     IF revision = "vector" /\ stack[k].op = op /\ stack[k].pc = "inCallback"
     THEN [stack[k] EXCEPT !.undefined = TRUE] ELSE stack[k]]

\* What the loop of call f can invoke next: the listener at its position; any
\* listener, or no callable at all (Null: the program ends), once its
\* iterators are invalid.
Callees(f) ==
  IF f.undefined THEN Listeners \cup {Null} ELSE {DispatchList(f)[f.i]}

\* Whether the loop of call f goes on after a listener returned: decided by
\* its position; either way once its iterators are invalid.
GoesOn(f) ==
  IF f.undefined THEN (IF f.i < MaxRegs THEN BOOLEAN ELSE {FALSE})
  ELSE {f.i < Len(DispatchList(f))}

Push(f) == stack' = Append(stack, f)

\* ------------------------------------------------------------------- Init
Init ==
  /\ revision \in Revisions
  /\ channels = EmptyMap
  /\ payloads = <<>>
  /\ dataObjects = <<>>
  /\ channelListChangedCallbacks = <<>>
  /\ channelChangeCallbacks = <<>>
  /\ signalCallbacks = EmptyMap
  /\ signalFired = <<>>
  /\ stack = <<>>
  /\ held = {}
  /\ interest = <<>>
  /\ early = {}
  /\ lcCount = [cb \in Listeners |-> 0]
  /\ handleCalled = FALSE
  /\ channels2 = EmptyMap
  /\ held2 = {}
  /\ alive = TRUE
  /\ fatal = <<>>

\* ----------------------------------------------------------------- handle
\* (a variant that forgets to check the name key)
handleRejects_typeOnly(t, n) == ~StringID_isValid(t)

\* if(!typeID.isValid() || !nameID.isValid()) return CoreInterfaceHandle();
handleRejects(t, n) == ~StringID_isValid(t) \/ ~StringID_isValid(n)

\* (a variant that starts the type's inner map afresh)
channelsAfterLookup_fresh(t, n) ==
  MapPut(channels, t, MapPut(EmptyMap, n, DefaultHandle))

\* CoreInterfaceHandle& localHandle = d->channels[typeID][nameID];
\* both operator[] insert a default-constructed value for a key that is new
channelsAfterLookup(t, n) ==
  LET inner == IF t \in DOMAIN channels THEN channels[t] ELSE EmptyMap
  IN  MapPut(channels, t,
             IF n \in DOMAIN inner THEN inner ELSE MapPut(inner, n, DefaultHandle))

\* The same lookup in the second registry.
channels2AfterLookup(t, n) ==
  LET inner == IF t \in DOMAIN channels2 THEN channels2[t] ELSE EmptyMap
  IN  MapPut(channels2, t,
             IF n \in DOMAIN inner THEN inner ELSE MapPut(inner, n, DefaultHandle))

\* (a variant that makes a payload on every call)
handleCreates_always(localHandle) == TRUE

\* if(!localHandle.m_payload)
handleCreates(localHandle) == localHandle.m_payload = Null

\* (a variant in which the allocator hands out the last address again)
newPayload_reused == IF payloads = <<>> THEN Len(payloads) + 1 ELSE Len(payloads)

\* new CoreInterfacePayloadPrivate: an address no other payload has
newPayload == Len(payloads) + 1

\* (a variant that notifies before the payload is stored in the entry)
createdHandle_noPayload(t, n) == [m_payload |-> Null, m_typeID |-> t, m_nameID |-> n]

\* (a variant that stores each key in the other's member)
createdHandle_swapped(t, n) == [m_payload |-> newPayload, m_typeID |-> n, m_nameID |-> t]

\* localHandle.m_payload = new ...; localHandle.m_typeID = typeID; localHandle.m_nameID = nameID;
createdHandle(t, n) == [m_payload |-> newPayload, m_typeID |-> t, m_nameID |-> n]

\* CoreInterface::handle, called directly (j is empty) or by
\* CoreInterfaceHandle::loadState with the document j.
handleFrom(th, t, n, nested, j) ==
  /\ CanCall(nested)
  /\ IF ~checkThread(th)
     THEN Fatal(th, "handle")
     ELSE
       /\ handleCalled' = TRUE
       /\ UNCHANGED <<revision, dataObjects, channelListChangedCallbacks,
                      channelChangeCallbacks, signalCallbacks, signalFired,
                      held, interest, early, lcCount>>
       /\ IF handleRejects(t, n)
          THEN /\ Push([Frame(th, "handle", t, n, DefaultHandle, Null, Null)
                         EXCEPT !.json = j])
               /\ UNCHANGED <<channels, payloads>>
          ELSE LET ch1 == channelsAfterLookup(t, n)
                   f   == [Frame(th, "handle", t, n, DefaultHandle, Null, Null)
                            EXCEPT !.json = j]
               IN  IF handleCreates(ch1[t][n])
                   THEN LET ch2 == [ch1 EXCEPT ![t][n] = createdHandle(t, n)]
                        IN  /\ Len(payloads) < MaxSlots
                            /\ payloads' = Append(payloads, [data |-> Null])
                            /\ channels' = ch2
                            /\ Push(EnterLoop([f EXCEPT !.created = TRUE],
                                              channelListChangedCallbacks, ch2))
                   ELSE /\ channels' = ch1
                        /\ payloads' = payloads
                        /\ Push(AtReturn(f, ch1))
       /\ UNCHANGED lifeVars

handle(th, t, n, nested) == handleFrom(th, t, n, nested, EmptyMap)

\* (a variant that also writes the channel's value)
saveState_withValue(h) ==
  [typeID |-> toString(h.m_typeID), nameID |-> toString(h.m_nameID),
   value |-> IF h.m_payload # Null THEN payloads[h.m_payload].data ELSE Null]

\* (a variant that writes each key under the other's member name)
saveState_swapped(h) ==
  [typeID |-> toString(h.m_nameID), nameID |-> toString(h.m_typeID)]

\* j["typeID"] = m_typeID.toString(); j["nameID"] = m_nameID.toString();
saveState(h) ==
  [typeID |-> toString(h.m_typeID), nameID |-> toString(h.m_nameID)]

\* (*this) = coreInterface->handle(TPJSONString(j, "typeID"), TPJSONString(j, "nameID"));
loadState(th, j, nested) ==
  handleFrom(th, StringID(TPJSONString(j, "typeID")),
                 StringID(TPJSONString(j, "nameID")), nested, j)

\* CoreInterface::handle of the second registry, which has no listeners: the
\* call returns at once.
other_handle(th, t, n) ==
  /\ CanCall(FALSE)
  /\ IF ~checkThread(th)
     THEN Fatal(th, "handle")
     ELSE
       /\ IF handleRejects(t, n)
          THEN UNCHANGED <<channels2, payloads, held2>>
          ELSE LET ch1 == channels2AfterLookup(t, n)
               IN  IF handleCreates(ch1[t][n])
                   THEN /\ Len(payloads) < MaxSlots
                        /\ payloads' = Append(payloads, [data |-> Null])
                        /\ channels2' = [ch1 EXCEPT ![t][n] = createdHandle(t, n)]
                        /\ held2' = held2 \cup {[typeID |-> t, nameID |-> n,
                                                  h |-> createdHandle(t, n)]}
                   ELSE /\ channels2' = ch1
                        /\ payloads' = payloads
                        /\ held2' = held2 \cup {[typeID |-> t, nameID |-> n,
                                                  h |-> handleResult(ch1, t, n)]}
       /\ UNCHANGED <<revision, channels, dataObjects, channelListChangedCallbacks,
                      channelChangeCallbacks, signalCallbacks, signalFired, stack,
                      ghostVars, alive, fatal>>

\* ---------------------------------------------------- the caller's payload
\* What a caller passes as CoreInterfaceData*: nullptr, or an object it has just
\* made with new (every object is handed over once).
newData == Len(dataObjects) + 1

DataArgs == {Null} \cup (IF Len(dataObjects) < MaxData THEN {newData} ELSE {})

\* The objects once the caller has made the one it passes.
WithArg(data, op) ==
  IF data = Null THEN dataObjects
  ELSE Append(dataObjects, [givenTo |-> op, deleted |-> 0])

\* The Handles a caller has: the ones handle() returned, and CoreInterfaceHandle().
HandleArgs == {r.h : r \in held} \cup {DefaultHandle}

\* --------------------------------------------------------- setChannelData
\* if(!handle.m_payload) { delete data; return; }
setChannelDataRejects(h) == h.m_payload = Null

\* (a variant that returns without deleting what it was given)
rejectedData_leaked(objs, data) == objs

\* if(!handle.m_payload) { delete data; return; }
rejectedData(objs, data) == Delete(objs, data)

\* (a variant that leaves the value it replaces alone)
afterDeleteOld_kept(objs, h) == objs

\* delete handle.m_payload->data;
afterDeleteOld(objs, h) == Delete(objs, payloads[h.m_payload].data)

\* (a variant that stores the new value in every Slot)
afterInstall_all(h, data) == [id \in 1..Len(payloads) |-> [data |-> data]]

\* (a variant that never stores the new value)
afterInstall_dropped(h, data) == payloads

\* (a variant that takes a null value to mean: leave the Slot as it is)
afterInstall_unlessNull(h, data) ==
  IF data = Null THEN payloads ELSE [payloads EXCEPT ![h.m_payload].data = data]

\* handle.m_payload->data = data;
afterInstall(h, data) == [payloads EXCEPT ![h.m_payload].data = data]

setChannelData(th, h, data, nested) ==
  /\ CanCall(nested)
  /\ IF ~checkThread(th)
     THEN Fatal(th, "setChannelData")
     ELSE
       /\ UNCHANGED <<revision, channels, channelListChangedCallbacks,
                      channelChangeCallbacks, signalCallbacks, signalFired, ghostVars>>
       /\ LET f == Frame(th, "setChannelData", h.m_typeID, h.m_nameID, h, data, Null)
              objs == WithArg(data, "setChannelData")
          IN  IF setChannelDataRejects(h)
              THEN /\ dataObjects' = rejectedData(objs, data)
                   /\ payloads' = payloads
                   /\ Push(f)
              ELSE /\ dataObjects' = afterDeleteOld(objs, h)
                   /\ payloads' = afterInstall(h, data)
                   /\ Push(EnterLoop(f, channelChangeCallbacks, channels))
       /\ UNCHANGED lifeVars

\* ------------------------------------------------------------- sendSignal
\* "vector": d->signalCallbacks[typeID] inserts an empty list for a type that has none
signalCallbacksAfterLookup(t) ==
  IF revision = "vector" /\ t \notin DOMAIN signalCallbacks
  THEN MapPut(signalCallbacks, t, <<>>) ELSE signalCallbacks

\* (a variant that keeps the signal: it stores the payload in a channel)
sendSignal_retains(th, t, data, nested) ==
  /\ CanCall(nested)
  /\ IF ~checkThread(th)
     THEN Fatal(th, "sendSignal")
     ELSE
       /\ UNCHANGED <<revision, channels, channelListChangedCallbacks,
                      channelChangeCallbacks, signalFired, ghostVars>>
       /\ payloads' = IF payloads = <<>> THEN payloads
                      ELSE [payloads EXCEPT ![1].data = data]
       /\ signalCallbacks' = signalCallbacksAfterLookup(t)
       /\ dataObjects' = WithArg(data, "sendSignal")
       /\ Push(EnterLoop(Frame(th, "sendSignal", t, InvalidKey, DefaultHandle, data, Null),
                         signalListeners(signalCallbacksAfterLookup(t), t), channels))
       /\ UNCHANGED lifeVars

sendSignal(th, t, data, nested) ==
  /\ CanCall(nested)
  /\ IF ~checkThread(th)
     THEN Fatal(th, "sendSignal")
     ELSE
       /\ UNCHANGED <<revision, channels, payloads, channelListChangedCallbacks,
                      channelChangeCallbacks, signalFired, ghostVars>>
       /\ signalCallbacks' = signalCallbacksAfterLookup(t)
       /\ dataObjects' = WithArg(data, "sendSignal")
       /\ Push(EnterLoop(Frame(th, "sendSignal", t, InvalidKey, DefaultHandle, data, Null),
                         signalListeners(signalCallbacksAfterLookup(t), t), channels))
       /\ UNCHANGED lifeVars

\* ------------------------------------------------------- listener dispatch
\* (*c)(...): the call's loop enters its next listener.
Invoke ==
  /\ fatal = <<>>
  /\ stack # <<>>
  /\ Top.pc = "dispatch"
  /\ \E cb \in Callees(Top) :
       IF cb = Null
       THEN Fatal(Top.thread, "undefined")
       ELSE
         /\ LET f == Top
                a == InvokeArgs(f)
                e == [cb |-> cb, typeID |-> a.typeID, nameID |-> a.nameID,
                      data |-> a.data]
            IN  /\ stack' = [stack EXCEPT ![Len(stack)] =
                               [f EXCEPT !.pc = "inCallback", !.log = Append(@, e),
                                         !.heard = ToldSince(@, {e})]]
                /\ lcCount' = IF f.op = "handle" /\ cb \in early
                              THEN [lcCount EXCEPT ![cb] = @ + 1] ELSE lcCount
         /\ UNCHANGED <<revision, registryVars, dataObjects, held, interest, early,
                        handleCalled>>
         /\ UNCHANGED lifeVars

\* The listener returns; the loop goes on to the next one or ends.
CallbackReturn ==
  /\ fatal = <<>>
  /\ stack # <<>>
  /\ Top.pc = "inCallback"
  /\ \E more \in GoesOn(Top) :
       LET f == Top
       IN  stack' = [stack EXCEPT ![Len(stack)] =
                      IF more
                      THEN [f EXCEPT !.pc = "dispatch", !.i = f.i + 1]
                      ELSE AtReturn(f, channels)]
  /\ UNCHANGED <<revision, registryVars, dataObjects, ghostVars>>
  /\ UNCHANGED lifeVars

\* The call returns to its caller, which keeps the Handle that handle() gave it.
Return ==
  /\ fatal = <<>>
  /\ stack # <<>>
  /\ Top.pc = "ret"
  /\ stack' = [k \in 1..(Len(stack) - 1) |->
                 IF k = Len(stack) - 1
                 THEN [stack[k] EXCEPT !.heard = ToldSince(@, Top.heard)]
                 ELSE stack[k]]
  /\ held' = IF Top.op = "handle" /\ ~handleRejects(Top.typeID, Top.nameID)
             THEN held \cup {[typeID |-> Top.typeID, nameID |-> Top.nameID,
                               h |-> Top.result]}
             ELSE held
  /\ UNCHANGED <<revision, registryVars, dataObjects, interest, early, lcCount,
                 handleCalled>>
  /\ UNCHANGED lifeVars

\* ------------------------------------------- registering and unregistering
\* Both revisions keep the listeners of a kind in registration order: "vector" in
\* a std::vector behind registerCallback / unregisterCallback, "collection" in the
\* public CallbackCollection member (addCallback / removeCallback).  Only the
\* functions of "vector" begin with d->checkThread(); the members of
\* "collection" are called without passing through the registry.
CanRegister(nested) == CanCall(nested) /\ NumRegs < MaxRegs

\* (a variant that erases every registration of the callback)
callbacksAfterUnregister_all(list, cb) == SelectSeq(list, LAMBDA x : x # cb)

\* unregisterCallback, on the list it is for: tpRemoveOne(<list>, callback);
callbacksAfterUnregister(list, cb) == tpRemoveOne(list, cb)

\* d->channelListChangedCallbacks.push_back(callback);
registerCallback_ChannelListChanged(th, cb, nested) ==
  /\ CanRegister(nested)
  /\ IF revision = "vector" /\ ~checkThread(th)
     THEN Fatal(th, "registerCallback")
     ELSE
       /\ channelListChangedCallbacks' = Append(channelListChangedCallbacks, cb)
       /\ early' = IF ~handleCalled /\ IndexOf(channelListChangedCallbacks, cb) = 0
                   THEN early \cup {cb} ELSE early \ {cb}
       /\ lcCount' = [lcCount EXCEPT ![cb] = 0]
       /\ stack' = Append(Invalidated("handle"),
                          Frame(th, "registerCallback_ChannelListChanged",
                                InvalidKey, InvalidKey, DefaultHandle, Null, cb))
       /\ UNCHANGED <<revision, channels, payloads, dataObjects, channelChangeCallbacks,
                      signalCallbacks, signalFired, held, interest, handleCalled>>
       /\ UNCHANGED lifeVars

\* tpRemoveOne(d->channelListChangedCallbacks, callback);
unregisterCallback_ChannelListChanged(th, cb, nested) ==
  /\ CanCall(nested)
  /\ IF revision = "vector" /\ ~checkThread(th)
     THEN Fatal(th, "unregisterCallback")
     ELSE
       /\ channelListChangedCallbacks' =
            callbacksAfterUnregister(channelListChangedCallbacks, cb)
       /\ early' = early \ {cb}
       /\ lcCount' = [lcCount EXCEPT ![cb] = 0]
       /\ stack' = Append(IF IndexOf(channelListChangedCallbacks, cb) = 0 THEN stack
                          ELSE Invalidated("handle"),
                          Frame(th, "unregisterCallback_ChannelListChanged",
                                InvalidKey, InvalidKey, DefaultHandle, Null, cb))
       /\ UNCHANGED <<revision, channels, payloads, dataObjects, channelChangeCallbacks,
                      signalCallbacks, signalFired, held, interest, handleCalled>>
       /\ UNCHANGED lifeVars

\* d->channelChangeCallbacks.push_back(callback);
registerCallback_ChannelChanged(th, cb, nested) ==
  /\ CanRegister(nested)
  /\ IF revision = "vector" /\ ~checkThread(th)
     THEN Fatal(th, "registerCallback")
     ELSE
       /\ channelChangeCallbacks' = Append(channelChangeCallbacks, cb)
       /\ stack' = Append(Invalidated("setChannelData"),
                          Frame(th, "registerCallback_ChannelChanged",
                                InvalidKey, InvalidKey, DefaultHandle, Null, cb))
       /\ UNCHANGED <<revision, channels, payloads, dataObjects,
                      channelListChangedCallbacks, signalCallbacks, signalFired,
                      ghostVars>>
       /\ UNCHANGED lifeVars

\* tpRemoveOne(d->channelChangeCallbacks, callback);
unregisterCallback_ChannelChanged(th, cb, nested) ==
  /\ CanCall(nested)
  /\ IF revision = "vector" /\ ~checkThread(th)
     THEN Fatal(th, "unregisterCallback")
     ELSE
       /\ channelChangeCallbacks' =
            callbacksAfterUnregister(channelChangeCallbacks, cb)
       /\ stack' = Append(IF IndexOf(channelChangeCallbacks, cb) = 0 THEN stack
                          ELSE Invalidated("setChannelData"),
                          Frame(th, "unregisterCallback_ChannelChanged",
                                InvalidKey, InvalidKey, DefaultHandle, Null, cb))
       /\ UNCHANGED <<revision, channels, payloads, dataObjects,
                      channelListChangedCallbacks, signalCallbacks, signalFired,
                      ghostVars>>
       /\ UNCHANGED lifeVars

\* "vector": d->signalCallbacks[typeID].push_back(callback);
registerCallback_Signal(th, cb, t) ==
  /\ revision = "vector"
  /\ CanRegister(FALSE)
  /\ IF ~checkThread(th)
     THEN Fatal(th, "registerCallback")
     ELSE
       /\ signalCallbacks' = MapPut(signalCallbacks, t,
                                    Append(signalCallbacksAfterLookup(t)[t], cb))
       /\ Push(Frame(th, "registerCallback_Signal", t, InvalidKey, DefaultHandle, Null, cb))
       /\ UNCHANGED <<revision, channels, payloads, dataObjects,
                      channelListChangedCallbacks, channelChangeCallbacks, signalFired,
                      ghostVars>>
       /\ UNCHANGED lifeVars

\* "vector": auto& callbacks = d->signalCallbacks[typeID];
\*           tpRemoveOne(callbacks, callback);
\*           if(callbacks.empty()) d->signalCallbacks.erase(typeID);
unregisterCallback_Signal(th, cb, t) ==
  /\ revision = "vector"
  /\ CanCall(FALSE)
  /\ IF ~checkThread(th)
     THEN Fatal(th, "unregisterCallback")
     ELSE
       /\ LET callbacks == callbacksAfterUnregister(signalCallbacksAfterLookup(t)[t], cb)
          IN  signalCallbacks' = IF callbacks = <<>> THEN MapErase(signalCallbacks, t)
                                 ELSE MapPut(signalCallbacks, t, callbacks)
       /\ Push(Frame(th, "unregisterCallback_Signal", t, InvalidKey, DefaultHandle, Null, cb))
       /\ UNCHANGED <<revision, channels, payloads, dataObjects,
                      channelListChangedCallbacks, channelChangeCallbacks, signalFired,
                      ghostVars>>
       /\ UNCHANGED lifeVars

\* "collection": signalFired.addCallback(callback), by a listener that wants the
\* signals of type t; the collection has no type to register for.  The
\* collection is a public member: the call does not pass through checkThread().
signalFired_addCallback(th, cb, t) ==
  /\ revision = "collection"
  /\ CanRegister(FALSE)
  /\ signalFired' = Append(signalFired, cb)
  /\ interest' = Append(interest, t)
  /\ Push(Frame(th, "signalFired_addCallback", t, InvalidKey, DefaultHandle, Null, cb))
  /\ UNCHANGED <<revision, channels, payloads, dataObjects,
                 channelListChangedCallbacks, channelChangeCallbacks,
                 signalCallbacks, held, early, lcCount, handleCalled>>
  /\ UNCHANGED lifeVars

\* "collection": signalFired.removeCallback(callback)
signalFired_removeCallback(th, cb) ==
  /\ revision = "collection"
  /\ CanCall(FALSE)
  /\ signalFired' = tpRemoveOne(signalFired, cb)
  /\ interest' = RemoveAt(interest, IndexOf(signalFired, cb))
  /\ Push(Frame(th, "signalFired_removeCallback",
                InvalidKey, InvalidKey, DefaultHandle, Null, cb))
  /\ UNCHANGED <<revision, channels, payloads, dataObjects,
                 channelListChangedCallbacks, channelChangeCallbacks,
                 signalCallbacks, held, early, lcCount, handleCalled>>
  /\ UNCHANGED lifeVars

\* ------------------------------------------------ reading and destroying
\* d->checkThread(); return d->channels;
CoreInterface_channels(th) ==
  /\ CanCall(FALSE)
  /\ IF ~checkThread(th)
     THEN Fatal(th, "channels")
     ELSE /\ Push(Frame(th, "channels", InvalidKey, InvalidKey, DefaultHandle, Null, Null))
          /\ UNCHANGED <<revision, registryVars, dataObjects, ghostVars, lifeVars>>

\* (a variant of the payload's destructor that leaves its data alone)
payloadDestroyed_leaked(objs, payload) == objs

\* ~CoreInterfacePayloadPrivate() { delete data; }
payloadDestroyed(objs, payload) ==
  IF payload = Null THEN objs ELSE Delete(objs, payloads[payload].data)

\* ~Private(): for(i : channels) for(j : i.second) delete j.second.m_payload;
RECURSIVE privateDestroyed(_, _)
privateDestroyed(objs, pairs) ==
  IF pairs = {} THEN objs
  ELSE LET p == CHOOSE x \in pairs : TRUE
       IN  privateDestroyed(payloadDestroyed(objs, channels[p[1]][p[2]].m_payload),
                            pairs \ {p})

\* CoreInterface::~CoreInterface: d->checkThread(); delete d;
destroy(th) ==
  /\ CanCall(FALSE)
  /\ IF ~checkThread(th)
     THEN Fatal(th, "~CoreInterface")
     ELSE /\ dataObjects' = privateDestroyed(dataObjects, ChannelPairs)
          /\ alive' = FALSE
          /\ Push(Frame(th, "~CoreInterface", InvalidKey, InvalidKey, DefaultHandle,
                        Null, Null))
          /\ UNCHANGED <<revision, registryVars, ghostVars, channels2, held2, fatal>>

\* ------------------------------------------------------------------- Next
\* The documents saveState() makes of the Handles the callers hold.
Documents == {saveState(h) : h \in HandleArgs \cup {r.h : r \in held2}}

\* The channel side of the registry: channels, their values and the listeners
\* of the channel list and of channel values.
Next ==
  \/ \E t \in Keys, n \in Keys : handle(ownerThread, t, n, FALSE)
  \/ \E h \in HandleArgs, d \in DataArgs : setChannelData(ownerThread, h, d, FALSE)
  \/ Invoke
  \/ CallbackReturn
  \/ Return
  \/ \E cb \in Listeners : registerCallback_ChannelListChanged(ownerThread, cb, FALSE)
  \/ \E cb \in Listeners : unregisterCallback_ChannelListChanged(ownerThread, cb, FALSE)
  \/ \E cb \in Listeners : registerCallback_ChannelChanged(ownerThread, cb, FALSE)
  \/ \E cb \in Listeners : unregisterCallback_ChannelChanged(ownerThread, cb, FALSE)

Spec == Init /\ [][Next]_vars

\* The signal side of the registry, next to channels that hold values.
NextSignals ==
  \/ \E t \in Keys, n \in Keys : handle(ownerThread, t, n, FALSE)
  \/ \E h \in HandleArgs, d \in DataArgs : setChannelData(ownerThread, h, d, FALSE)
  \/ \E t \in Keys, d \in DataArgs : sendSignal(ownerThread, t, d, FALSE)
  \/ Invoke
  \/ CallbackReturn
  \/ Return
  \/ \E cb \in Listeners, t \in Keys : registerCallback_Signal(ownerThread, cb, t)
  \/ \E cb \in Listeners, t \in Keys : unregisterCallback_Signal(ownerThread, cb, t)
  \/ \E cb \in Listeners, t \in ValidKeys : signalFired_addCallback(ownerThread, cb, t)
  \/ \E cb \in Listeners : signalFired_removeCallback(ownerThread, cb)

SpecSignals == Init /\ [][NextSignals]_vars

\* Handles and their persisted state: two registries without listeners.
NextHandles ==
  \/ \E t \in Keys, n \in Keys : handle(ownerThread, t, n, FALSE)
  \/ \E t \in Keys, n \in Keys : other_handle(ownerThread, t, n)
  \/ \E j \in Documents : loadState(ownerThread, j, FALSE)
  \/ Return

SpecHandles == Init /\ [][NextHandles]_vars

\* The whole life of one registry, used by every thread: every operation, on the
\* channels of one type and with one listener object, up to the destructor.
OneKey == {k \in Keys : k <= 1}
OneListener == {cb \in Listeners : cb <= 1}

NextLife ==
  \/ \E th \in Threads, t \in OneKey, n \in Keys : handle(th, t, n, FALSE)
  \/ \E th \in Threads, j \in Documents : loadState(th, j, FALSE)
  \/ \E th \in Threads, h \in HandleArgs, d \in DataArgs : setChannelData(th, h, d, FALSE)
  \/ \E th \in Threads, t \in OneKey, d \in DataArgs : sendSignal(th, t, d, FALSE)
  \/ \E th \in Threads : CoreInterface_channels(th)
  \/ Invoke
  \/ CallbackReturn
  \/ Return
  \/ \E th \in Threads, cb \in OneListener : registerCallback_ChannelListChanged(th, cb, FALSE)
  \/ \E th \in Threads, cb \in OneListener : unregisterCallback_ChannelListChanged(th, cb, FALSE)
  \/ \E th \in Threads, cb \in OneListener : registerCallback_ChannelChanged(th, cb, FALSE)
  \/ \E th \in Threads, cb \in OneListener : unregisterCallback_ChannelChanged(th, cb, FALSE)
  \/ \E th \in Threads, cb \in OneListener, t \in OneKey : registerCallback_Signal(th, cb, t)
  \/ \E th \in Threads, cb \in OneListener, t \in OneKey : unregisterCallback_Signal(th, cb, t)
  \/ \E th \in Threads, cb \in OneListener, t \in OneKey \ {InvalidKey} :
        signalFired_addCallback(th, cb, t)
  \/ \E th \in Threads, cb \in OneListener : signalFired_removeCallback(th, cb)
  \/ \E th \in Threads : destroy(th)

SpecLife == Init /\ [][NextLife]_vars

\* Listeners that call back into the registry: handle() and setChannelData are
\* called by the application and, while a listener is being invoked, by that
\* listener (which runs on the thread of the call that invokes it).
NextReentrant ==
  \/ \E nested \in BOOLEAN, t \in OneKey, n \in Keys :
        handle(ownerThread, t, n, nested)
  \/ \E nested \in BOOLEAN, h \in HandleArgs, d \in DataArgs :
        setChannelData(ownerThread, h, d, nested)
  \/ Invoke
  \/ CallbackReturn
  \/ Return
  \/ \E cb \in Listeners : registerCallback_ChannelListChanged(ownerThread, cb, FALSE)
  \/ \E cb \in Listeners : registerCallback_ChannelChanged(ownerThread, cb, FALSE)

SpecReentrant == Init /\ [][NextReentrant]_vars

\* Listeners that register and unregister listeners while they are being
\* invoked, around the channels of one type.
NextMutate ==
  \/ \E t \in OneKey, n \in ValidKeys : handle(ownerThread, t, n, FALSE)
  \/ \E h \in HandleArgs, d \in DataArgs : setChannelData(ownerThread, h, d, FALSE)
  \/ Invoke
  \/ CallbackReturn
  \/ Return
  \/ \E nested \in BOOLEAN, cb \in Listeners :
        registerCallback_ChannelListChanged(ownerThread, cb, nested)
  \/ \E nested \in BOOLEAN, cb \in Listeners :
        unregisterCallback_ChannelListChanged(ownerThread, cb, nested)
  \/ \E nested \in BOOLEAN, cb \in Listeners :
        registerCallback_ChannelChanged(ownerThread, cb, nested)
  \/ \E nested \in BOOLEAN, cb \in Listeners :
        unregisterCallback_ChannelChanged(ownerThread, cb, nested)

SpecMutate == Init /\ [][NextMutate]_vars

\* Calls that run to their end: the listeners do not call back into the
\* registry, every listener that is invoked returns, and the thread that made a
\* call goes on executing it (nothing else has to happen for a call to
\* proceed), around one channel and the signals of one type.
NextSync ==
  \/ \E t \in OneKey, n \in OneKey : handle(ownerThread, t, n, FALSE)
  \/ \E h \in HandleArgs, d \in DataArgs : setChannelData(ownerThread, h, d, FALSE)
  \/ \E t \in OneKey, d \in DataArgs : sendSignal(ownerThread, t, d, FALSE)
  \/ Invoke
  \/ CallbackReturn
  \/ Return
  \/ \E cb \in Listeners : registerCallback_ChannelListChanged(ownerThread, cb, FALSE)
  \/ \E cb \in Listeners : registerCallback_ChannelChanged(ownerThread, cb, FALSE)
  \/ \E cb \in Listeners, t \in OneKey : registerCallback_Signal(ownerThread, cb, t)
  \/ \E cb \in Listeners, t \in OneKey \ {InvalidKey} :
        signalFired_addCallback(ownerThread, cb, t)

SpecSync ==
  /\ Init
  /\ [][NextSync]_vars
  /\ WF_vars(Invoke)
  /\ WF_vars(CallbackReturn)
  /\ WF_vars(Return)

\* The Handles of both registries, which a caller can pass to either.
AnyHandleArgs == HandleArgs \cup {r.h : r \in held2}

\* Two registries of one program: the first has listeners, takes the documents
\* saved from the Handles of either and is written through the Handles of
\* either.
NextShared ==
  \/ \E t \in OneKey, n \in Keys : handle(ownerThread, t, n, FALSE)
  \/ \E t \in OneKey, n \in Keys : other_handle(ownerThread, t, n)
  \/ \E j \in Documents : loadState(ownerThread, j, FALSE)
  \/ \E h \in AnyHandleArgs, d \in DataArgs : setChannelData(ownerThread, h, d, FALSE)
  \/ Invoke
  \/ CallbackReturn
  \/ Return
  \/ \E cb \in Listeners : registerCallback_ChannelListChanged(ownerThread, cb, FALSE)
  \/ \E cb \in Listeners : registerCallback_ChannelChanged(ownerThread, cb, FALSE)

SpecShared == Init /\ [][NextShared]_vars

\* Registering and unregistering in a registry that already has listeners.  The
\* application has made up to MaxRegs + 1 registrations of one kind before the
\* first handle() call (lists of three are the shortest in which a listener can
\* be removed from between two others); signal listeners are registered for
\* the type OneSignal.
OneSignal == OneKey \ {InvalidKey}

ListsUpTo(n) == UNION {[1..k -> Listeners] : k \in 0..n}

InitBalance ==
  /\ revision \in Revisions
  /\ channels = EmptyMap
  /\ payloads = <<>>
  /\ dataObjects = <<>>
  /\ \E kind \in {"channelListChanged", "channelChanged", "signal"},
        regs \in ListsUpTo(MaxRegs + 1), t \in OneSignal :
        /\ channelListChangedCallbacks =
             (IF kind = "channelListChanged" THEN regs ELSE <<>>)
        /\ channelChangeCallbacks = (IF kind = "channelChanged" THEN regs ELSE <<>>)
        /\ signalCallbacks =
             (IF kind = "signal" /\ revision = "vector" /\ regs # <<>>
              THEN MapPut(EmptyMap, t, regs) ELSE EmptyMap)
        /\ signalFired =
             (IF kind = "signal" /\ revision = "collection" THEN regs ELSE <<>>)
        /\ interest =
             (IF kind = "signal" /\ revision = "collection"
              THEN [k \in 1..Len(regs) |-> t] ELSE <<>>)
        /\ early = (IF kind = "channelListChanged"
                    THEN {regs[k] : k \in 1..Len(regs)} ELSE {})
  /\ stack = <<>>
  /\ held = {}
  /\ lcCount = [cb \in Listeners |-> 0]
  /\ handleCalled = FALSE
  /\ channels2 = EmptyMap
  /\ held2 = {}
  /\ alive = TRUE
  /\ fatal = <<>>

NextBalance ==
  \/ \E t \in OneSignal, n \in OneSignal : handle(ownerThread, t, n, FALSE)
  \/ \E h \in HandleArgs : setChannelData(ownerThread, h, Null, FALSE)
  \/ \E t \in OneSignal : sendSignal(ownerThread, t, Null, FALSE)
  \/ Invoke
  \/ CallbackReturn
  \/ Return
  \/ \E cb \in Listeners : registerCallback_ChannelListChanged(ownerThread, cb, FALSE)
  \/ \E cb \in Listeners : unregisterCallback_ChannelListChanged(ownerThread, cb, FALSE)
  \/ \E cb \in Listeners : registerCallback_ChannelChanged(ownerThread, cb, FALSE)
  \/ \E cb \in Listeners : unregisterCallback_ChannelChanged(ownerThread, cb, FALSE)
  \/ \E cb \in Listeners, t \in OneSignal : registerCallback_Signal(ownerThread, cb, t)
  \/ \E cb \in Listeners, t \in OneSignal : unregisterCallback_Signal(ownerThread, cb, t)
  \/ \E cb \in Listeners, t \in OneSignal : signalFired_addCallback(ownerThread, cb, t)
  \/ \E cb \in Listeners : signalFired_removeCallback(ownerThread, cb)

SpecBalance == InitBalance /\ [][NextBalance]_vars

\* ================================================================ claims
Cbs(log) == [k \in 1..Len(log) |-> log[k].cb]

Frames == {stack[k] : k \in 1..Len(stack)}

\* (a variant that compares the type key only)
is_typeOnly(h, t, n) == h.m_typeID = t

\* CoreInterfaceHandle::is: return m_typeID==typeID && m_nameID==nameID;
is(h, t, n) == h.m_typeID = t /\ h.m_nameID = n

\* CoreInterfaceHandle::isValid
HandleIsValid(h) == StringID_isValid(h.m_typeID) /\ StringID_isValid(h.m_nameID)

\* C1: at most one Slot exists per (typeKey, nameKey) pair, and any two calls
\* handle(t, n) with the same valid pair return Handles that compare equal
\* with operator==, whatever happened between the calls.
C1_OneSlotPerPair ==
  /\ Len(payloads) = Cardinality(ChannelPairs)
  /\ \A r1 \in held, r2 \in held :
        (r1.typeID = r2.typeID /\ r1.nameID = r2.nameID) => HandleEq(r1.h, r2.h)
  /\ \A f \in Frames, r \in held :
        (f.op = "handle" /\ f.pc = "ret" /\ f.typeID = r.typeID /\ f.nameID = r.nameID)
          => HandleEq(f.result, r.h)

\* C1 witness: handle(ownerThread, t, n) returns for a second time for a pair whose Slot has
\* been written in between, while another Slot exists.
C1_Witness ==
  /\ stack # <<>>
  /\ Top.op = "handle" /\ Top.pc = "ret" /\ ~Top.created
  /\ \E r \in held : r.typeID = Top.typeID /\ r.nameID = Top.nameID
                      /\ HandleData(r.h) # Null
  /\ Len(payloads) = 2

\* C2: list-changed fires once per new Slot: a listener registered before any
\* handle() call and not unregistered has received as many invocations as there
\* are Slots whenever no call is in progress, and a handle() call that creates a
\* Slot has invoked every registered listener, in registration order, by the
\* time it returns (a call that creates none has invoked nobody).
C2_ListChangedOncePerSlot ==
  /\ stack = <<>> => \A cb \in early : lcCount[cb] = Cardinality(ChannelPairs)
  /\ \A f \in Frames :
        (f.op = "handle" /\ f.pc = "ret") =>
          Cbs(f.log) = IF f.created THEN channelListChangedCallbacks ELSE <<>>

\* C2 witness: the second Slot has just been created with two different
\* listeners registered, one of them since before any handle() call.
C2_Witness ==
  /\ stack # <<>>
  /\ Top.op = "handle" /\ Top.pc = "ret" /\ Top.created
  /\ Len(Top.log) = 2 /\ Top.log[1].cb # Top.log[2].cb
  /\ \E cb \in early : lcCount[cb] = 2
  /\ Cardinality(ChannelPairs) = 2

\* C3: handle(ownerThread, t, n) with an invalid type key or name key returns a Handle that
\* is not valid and references no Slot, invokes no listener, and leaves
\* channels() as it was: no Slot, no entry and no empty inner map is added.
C3_InvalidKeyNoSlot ==
  /\ \A f \in Frames :
        (f.op = "handle"
           /\ (~StringID_isValid(f.typeID) \/ ~StringID_isValid(f.nameID)))
        => /\ f.pc = "ret"
           /\ f.log = <<>>
           /\ f.result.m_payload = Null
           /\ ~HandleIsValid(f.result)
           /\ channels = f.before.channels
           /\ payloads = f.before.payloads
  /\ \A t \in DOMAIN channels :
        /\ StringID_isValid(t)
        /\ DOMAIN channels[t] # {}
        /\ \A n \in DOMAIN channels[t] :
              StringID_isValid(n) /\ channels[t][n].m_payload # Null

\* C3 witness: handle(ownerThread, t, invalid) has returned for a type t that has a channel,
\* with a list-changed listener registered.
C3_Witness ==
  /\ stack # <<>>
  /\ Top.op = "handle" /\ Top.pc = "ret"
  /\ StringID_isValid(Top.typeID) /\ ~StringID_isValid(Top.nameID)
  /\ Top.typeID \in DOMAIN channels
  /\ channelListChangedCallbacks # <<>>

\* Every Handle of the registry's channels that anyone has or can get:
\* the ones handed out, and the ones channels() and later handle() calls give.
AllHandles ==
  {r.h : r \in held} \cup {channels[p[1]][p[2]] : p \in ChannelPairs}

\* The pair a Slot is stored under in channels.
SlotPair(payload) ==
  CHOOSE p \in ChannelPairs : channels[p[1]][p[2]].m_payload = payload

\* C4: after setChannelData(h, v) on a valid Handle, data() of h and of every
\* other Handle of the same Slot is v (so after v1 then v2 it is v2); a Slot
\* that has not been written has data() null: it is null at creation, and the
\* only call that leaves a Slot's Data other than it found it is a
\* setChannelData through a Handle of that Slot, which leaves its argument.
C4_DataIsLastWritten ==
  \A f \in Frames :
    /\ (f.op = "setChannelData" /\ f.pc = "ret" /\ f.handle.m_payload # Null)
         => \A h \in AllHandles :
              HandleEq(h, f.handle) => HandleData(h) = f.data
    /\ (f.op = "handle" /\ f.created)
         => HandleData(channels[f.typeID][f.nameID]) = Null
    /\ \A id \in 1..Len(f.before.payloads) :
          payloads[id].data # f.before.payloads[id].data =>
            /\ f.op = "setChannelData"
            /\ f.handle.m_payload = id
            /\ payloads[id].data = f.data

\* C4 witness: a second value has been written over a first one, and a Handle
\* that handle() returned reads the second.
C4_Witness ==
  /\ stack # <<>>
  /\ Top.op = "setChannelData" /\ Top.pc = "ret" /\ Top.data = 2
  /\ dataObjects[1].givenTo = "setChannelData" /\ dataObjects[1].deleted = 1
  /\ \E r \in held : HandleEq(r.h, Top.handle) /\ HandleData(r.h) = 2

\* The notification setChannelData call f owes the k-th registered listener.
C5_Expected(f, k) ==
  [cb |-> channelChangeCallbacks[k],
   typeID |-> SlotPair(f.handle.m_payload)[1],
   nameID |-> SlotPair(f.handle.m_payload)[2],
   data |-> f.data]

\* C5: a setChannelData call on a valid Handle notifies every registered
\* channel-changed listener exactly once, in registration order, with the
\* Slot's type key and name key and the value the call installed (which is the
\* Slot's value and has not been destroyed); while the call runs it has
\* notified a prefix of the listeners, and each call notifies by itself.
C5_OneNotificationPerListener ==
  \A f \in Frames :
    (f.op = "setChannelData" /\ f.handle.m_payload # Null) =>
      /\ Len(f.log) <= Len(channelChangeCallbacks)
      /\ f.pc = "ret" => Len(f.log) = Len(channelChangeCallbacks)
      /\ \A k \in 1..Len(f.log) :
            /\ f.log[k] = C5_Expected(f, k)
            /\ f.log[k].data = HandleData(f.handle)
            /\ f.log[k].data # Null => dataObjects[f.log[k].data].deleted = 0

\* C5 witness: a call that replaced an earlier value has notified two different
\* listeners of the new one.
C5_Witness ==
  /\ stack # <<>>
  /\ Top.op = "setChannelData" /\ Top.pc = "ret" /\ Top.data = 2
  /\ Len(Top.log) = 2 /\ Top.log[1].cb # Top.log[2].cb
  /\ Top.handle.m_typeID # Top.handle.m_nameID
  /\ dataObjects[1].givenTo = "setChannelData" /\ dataObjects[1].deleted = 1

\* C6: setChannelData(ownerThread, h, data) with a Handle that references no Slot destroys
\* data, notifies nobody and leaves every Slot's Data, every other object and
\* the channels as they were.
C6_NoSlotWrite ==
  \A f \in Frames :
    (f.op = "setChannelData" /\ f.handle.m_payload = Null) =>
      /\ f.pc = "ret"
      /\ f.log = <<>>
      /\ channels = f.before.channels
      /\ payloads = f.before.payloads
      /\ \A p \in 1..Len(f.before.dataObjects) :
            dataObjects[p] = f.before.dataObjects[p]
      /\ f.data # Null =>
            /\ f.data \notin 1..Len(f.before.dataObjects)
            /\ dataObjects[f.data].deleted = 1

\* C6 witness: a payload has been written through CoreInterfaceHandle() while a
\* Slot holds a value and a channel-changed listener is registered.
C6_Witness ==
  /\ stack # <<>>
  /\ Top.op = "setChannelData" /\ Top.pc = "ret"
  /\ Top.handle.m_payload = Null /\ Top.data # Null
  /\ dataObjects[Top.data].deleted = 1
  /\ \E id \in 1..Len(payloads) : payloads[id].data # Null
  /\ channelChangeCallbacks # <<>>

\* The elements of s at the positions that marks (as long as s) has TRUE at.
RECURSIVE Pick(_, _, _)
Pick(s, marks, k) ==
  IF k > Len(s) THEN <<>>
  ELSE (IF marks[k] THEN <<s[k]>> ELSE <<>>) \o Pick(s, marks, k + 1)

Range(s) == {s[k] : k \in 1..Len(s)}

\* Which registrations of the list sendSignal runs over are for type t:
\* "vector" keeps a list per type, "collection" one list for every type.
ForType(t) ==
  IF revision = "vector"
  THEN [k \in 1..(IF t \in DOMAIN signalCallbacks THEN Len(signalCallbacks[t]) ELSE 0)
          |-> TRUE]
  ELSE [k \in 1..Len(interest) |-> interest[k] = t]

\* The listeners registered for signals of type t, in registration order.
RegisteredFor(t) ==
  IF revision = "vector"
  THEN IF t \in DOMAIN signalCallbacks THEN signalCallbacks[t] ELSE <<>>
  ELSE Pick(signalFired, ForType(t), 1)

\* C7: sendSignal(ownerThread, t, payload) invokes every listener registered for type t
\* exactly once, in registration order, and every listener it invokes is
\* passed the type key t and the payload of the call.
C7_SignalToEveryListener ==
  \A f \in Frames :
    f.op = "sendSignal" =>
      /\ \A k \in 1..Len(f.log) :
            /\ f.log[k].typeID = f.typeID
            /\ f.log[k].data = f.data
      /\ f.pc = "ret" =>
            /\ Len(f.log) = Len(ForType(f.typeID))
            /\ Pick(Cbs(f.log), ForType(f.typeID), 1) = RegisteredFor(f.typeID)

\* C7 witness: a signal with a payload has gone to two different listeners, both
\* registered for its type.
C7_Witness ==
  /\ stack # <<>>
  /\ Top.op = "sendSignal" /\ Top.pc = "ret" /\ Top.data # Null
  /\ StringID_isValid(Top.typeID)
  /\ Len(RegisteredFor(Top.typeID)) = 2
  /\ RegisteredFor(Top.typeID)[1] # RegisteredFor(Top.typeID)[2]
  /\ Len(Top.log) = 2

\* C8: sendSignal(ownerThread, t, data) with a valid type key t invokes only listeners
\* registered for type t: not a listener registered only for another type, and
\* nobody when no listener is registered for t.
C8_OnlyListenersOfType ==
  \A f \in Frames :
    (f.op = "sendSignal" /\ StringID_isValid(f.typeID)) =>
      \A k \in 1..Len(f.log) : f.log[k].cb \in Range(RegisteredFor(f.typeID))

\* C9: once sendSignal has returned, the payload it was given has been
\* destroyed, exactly once.
C9_SignalPayloadDestroyed ==
  \A p \in 1..Len(dataObjects) :
    dataObjects[p].givenTo = "sendSignal" =>
      /\ dataObjects[p].deleted <= 1
      /\ (\A f \in Frames : ~(f.op = "sendSignal" /\ f.data = p))
           => dataObjects[p].deleted = 1

\* C10: signals retain no state: a sendSignal call leaves the channels and
\* every Slot's Data as it found them, no Slot ever holds a signal's payload,
\* registering a signal listener invokes nobody, and a signal's payload reaches
\* listeners only from the sendSignal call it was given to, so nobody receives
\* it once that call has returned.
C10_SignalsRetainNothing ==
  /\ \A f \in Frames :
        /\ f.op = "sendSignal" =>
              channels = f.before.channels /\ payloads = f.before.payloads
        /\ f.op \in {"registerCallback_Signal", "signalFired_addCallback"} =>
              f.pc = "ret" /\ f.log = <<>>
        /\ \A k \in 1..Len(f.log) :
              (f.log[k].data # Null
                 /\ dataObjects[f.log[k].data].givenTo = "sendSignal")
              => (f.op = "sendSignal" /\ f.data = f.log[k].data)
  /\ \A id \in 1..Len(payloads) :
        payloads[id].data # Null =>
          dataObjects[payloads[id].data].givenTo = "setChannelData"

\* C10 witness: a second listener is being registered for a type after a
\* sendSignal call with a payload has returned, while a Slot holds a value.
C10_Witness ==
  /\ stack # <<>>
  /\ Top.op \in {"registerCallback_Signal", "signalFired_addCallback"}
  /\ Len(RegisteredFor(Top.typeID)) = 2
  /\ dataObjects # <<>>
  /\ dataObjects[Len(dataObjects)].givenTo = "sendSignal"
  /\ payloads # <<>>
  /\ payloads[1].data # Null

\* The Handles that handle() calls are returning right now.
Returning == {f.result : f \in {g \in Frames : g.op = "handle" /\ g.pc = "ret"}}

\* C11: operator== is true only of two valid Handles of the same channel: a
\* Handle that handle() returns does not compare equal to a Handle that is not
\* valid, be it a default-constructed one or the one the call itself returned
\* for an invalid key.
C11_EqualOnlyIfValid ==
  \A a \in Returning : \A b \in Returning \cup {r.h : r \in held} \cup {DefaultHandle} :
    HandleEq(a, b) => (HandleIsValid(a) /\ HandleIsValid(b))

\* The Handles the callers hold, each with the registry that returned it and
\* the pair it was asked for.
Issued ==
  {[registry |-> 1, typeID |-> r.typeID, nameID |-> r.nameID, h |-> r.h] : r \in held}
  \cup
  {[registry |-> 2, typeID |-> r.typeID, nameID |-> r.nameID, h |-> r.h] : r \in held2}

LexBefore(s1, s2) ==
  \E k \in 0..Len(s1) :
    /\ k <= Len(s2)
    /\ \A i \in 1..k : s1[i] = s2[i]
    /\ IF k = Len(s1) THEN k < Len(s2)
       ELSE k < Len(s2) /\ s1[k + 1] < s2[k + 1]

\* The Handles there are to sort.
Sortable == {a.h : a \in Issued} \cup {DefaultHandle}

\* C15: lessThanCoreInterfaceHandle(a, b) is true exactly when the string of
\* a's name key comes before that of b's in lexicographic order, whatever the
\* type keys and Slots; of two Handles with equal names neither is less than
\* the other, and the relation is irreflexive and transitive.
C15_LessThanIsNameOrder ==
  /\ \A a \in Sortable, b \in Sortable :
        /\ lessThanCoreInterfaceHandle(a, b)
             <=> LexBefore(toString(a.m_nameID), toString(b.m_nameID))
        /\ a.m_nameID = b.m_nameID =>
             (~lessThanCoreInterfaceHandle(a, b) /\ ~lessThanCoreInterfaceHandle(b, a))
  /\ \A a \in Sortable : ~lessThanCoreInterfaceHandle(a, a)
  /\ \A a \in Sortable, b \in Sortable, c \in Sortable :
        (lessThanCoreInterfaceHandle(a, b) /\ lessThanCoreInterfaceHandle(b, c))
          => lessThanCoreInterfaceHandle(a, c)

\* C15 witness: the callers hold two Handles with the same name and different
\* types and Slots, which come after the default-constructed Handle.
C15_Witness ==
  \E a \in Sortable, b \in Sortable :
    /\ a.m_nameID = b.m_nameID /\ a.m_typeID # b.m_typeID
    /\ a.m_payload # b.m_payload
    /\ lessThanCoreInterfaceHandle(DefaultHandle, a)
    /\ StringLess(toString(b.m_typeID), toString(a.m_typeID))

\* The Handles callers have or are being given by the registry.
Obtained == {r.h : r \in held} \cup Returning \cup {DefaultHandle}

\* h references a Slot that a live registry holds.
RealSlot(h) ==
  /\ alive
  /\ h.m_payload # Null
  /\ \E p \in ChannelPairs : channels[p[1]][p[2]].m_payload = h.m_payload

\* C13: for every Handle obtained through the public interface, isValid() is
\* true if and only if both of its keys are valid and it references a real Slot
\* of a live registry.
C13_ValidIffRealSlot ==
  \A h \in Obtained :
    HandleIsValid(h) <=>
      (StringID_isValid(h.m_typeID) /\ StringID_isValid(h.m_nameID) /\ RealSlot(h))

\* The (type, name) pairs of a channels map.
PairsOf(ch) == UNION {{<<t, n>> : n \in DOMAIN ch[t]} : t \in DOMAIN ch}

\* C16: while the registry lives no Slot is removed and none changes identity:
\* every pair that channels() had when a call was made is still there with the
\* same Handle, whatever the call (handle, setChannelData also of null,
\* sendSignal, registering and unregistering listeners), and every Handle that
\* handle() once returned is still the one stored under its pair.
C16_SlotsOnlyGrow ==
  /\ \A f \in Frames : \A p \in PairsOf(f.before.channels) :
        /\ p \in ChannelPairs
        /\ channels[p[1]][p[2]] = f.before.channels[p[1]][p[2]]
  /\ \A r \in held :
        /\ <<r.typeID, r.nameID>> \in ChannelPairs
        /\ channels[r.typeID][r.nameID] = r.h

\* C16 witness: null has been written to a Slot that held a value, while another
\* Slot and a channel-changed listener exist.
C16_Witness ==
  /\ stack # <<>>
  /\ Top.op = "setChannelData" /\ Top.pc = "ret"
  /\ Top.handle.m_payload # Null /\ Top.data = Null
  /\ Top.before.payloads[Top.handle.m_payload].data # Null
  /\ Top.log # <<>>
  /\ Cardinality(ChannelPairs) = 2

\* The pairs handle() has been called with, both keys valid, directly or
\* through loadState: the calls that have returned and the ones in progress.
Requested ==
  {<<r.typeID, r.nameID>> : r \in held}
  \cup {<<f.typeID, f.nameID>> :
          f \in {g \in Frames : g.op = "handle" /\ ~handleRejects(g.typeID, g.nameID)}}

\* C17: channels() holds exactly the Slots ever created: a pair is present if
\* and only if handle() has been called for it with both keys valid; the Handle
\* stored under (t, n) has a Slot, carries typeID() = t and nameID() = n and
\* equals what handle(t, n) returned; and a call of channels() changes nothing.
C17_ChannelsEnumeratesSlots ==
  /\ ChannelPairs = Requested
  /\ \A p \in ChannelPairs :
        /\ channels[p[1]][p[2]].m_payload # Null
        /\ channels[p[1]][p[2]].m_typeID = p[1]
        /\ channels[p[1]][p[2]].m_nameID = p[2]
  /\ \A r \in held : HandleEq(channels[r.typeID][r.nameID], r.h)
  /\ \A f \in Frames :
        /\ (f.op = "handle" /\ f.pc = "ret" /\ ~handleRejects(f.typeID, f.nameID))
             => HandleEq(channels[f.typeID][f.nameID], f.result)
        /\ f.op = "channels" => (f.pc = "ret" /\ f.log = <<>> /\ Snapshot = f.before)

\* C17 witness: channels() is called when two Slots of one type exist and one of
\* them holds a value.
C17_Witness ==
  /\ stack # <<>>
  /\ Top.op = "channels"
  /\ Cardinality(ChannelPairs) = 2
  /\ \E p \in ChannelPairs : HandleData(channels[p[1]][p[2]]) # Null
  /\ \E p \in ChannelPairs : p[1] # p[2]

\* C18: every payload handed to setChannelData is destroyed exactly once: it is
\* never destroyed twice, it is intact exactly as long as a Slot of the live
\* registry holds it, and so once the registry has been destroyed every such
\* payload has been destroyed.
C18_PayloadsDestroyedOnce ==
  \A p \in 1..Len(dataObjects) :
    dataObjects[p].givenTo = "setChannelData" =>
      /\ dataObjects[p].deleted <= 1
      /\ dataObjects[p].deleted = 0 <=>
           (alive /\ \E id \in 1..Len(payloads) : payloads[id].data = p)
      /\ ~alive => dataObjects[p].deleted = 1

\* C18 witness: the registry has been destroyed while a Slot held a value that
\* had replaced an earlier one.
C18_Witness ==
  /\ stack # <<>>
  /\ Top.op = "~CoreInterface"
  /\ Len(dataObjects) = 2
  /\ Top.before.dataObjects[1].deleted = 1 /\ Top.before.dataObjects[2].deleted = 0
  /\ dataObjects[1].givenTo = "setChannelData"
  /\ dataObjects[2].givenTo = "setChannelData"
  /\ \E id \in 1..Len(payloads) : payloads[id].data = 2

\* C19: every public operation asserts that its caller is the thread that
\* constructed the registry: only that thread gets into an operation, and a
\* call by another thread ends in the assertion with the registry as it was.
C19_OwnerThreadOnly ==
  /\ \A f \in Frames : f.thread = ownerThread
  /\ fatal # <<>> => (fatal[1].thread # ownerThread /\ Snapshot = fatal[1].before)

\* C20: handle(t, n) for a pair whose Slot exists is a lookup: it invokes no
\* listener and leaves the channels, every Slot's Data, the payload objects and
\* all listener lists as it found them.
C20_HandleIsPureLookup ==
  \A f \in Frames :
    (f.op = "handle" /\ <<f.typeID, f.nameID>> \in PairsOf(f.before.channels)) =>
      /\ f.pc = "ret"
      /\ f.log = <<>>
      /\ ~f.created
      /\ HandleEq(f.result, f.before.channels[f.typeID][f.nameID])
      /\ Snapshot = f.before

\* C20 witness: handle() has looked up a Slot that holds a value, with a
\* list-changed listener and a channel-changed listener registered.
C20_Witness ==
  /\ stack # <<>>
  /\ Top.op = "handle"
  /\ <<Top.typeID, Top.nameID>> \in PairsOf(Top.before.channels)
  /\ HandleData(Top.result) # Null
  /\ channelListChangedCallbacks # <<>>
  /\ channelChangeCallbacks # <<>>

\* C21: when setChannelData overwrites a Slot that holds Data, the previous
\* payload is destroyed within that call and before any channel-changed
\* listener is invoked: from the first moment of the dispatch to the return it
\* is destroyed (once), the Slot no longer holds it and no listener is given it.
C21_OldPayloadDestroyedAtOnce ==
  \A f \in Frames :
    (f.op = "setChannelData" /\ f.handle.m_payload # Null
       /\ f.before.payloads[f.handle.m_payload].data # Null) =>
      LET old == f.before.payloads[f.handle.m_payload].data
      IN  /\ dataObjects[old].deleted = 1
          /\ \A id \in 1..Len(payloads) : payloads[id].data # old
          /\ \A k \in 1..Len(f.log) : f.log[k].data # old

\* C21 witness: a value is being written over an earlier one and the call is
\* about to invoke the first of two listeners.
C21_Witness ==
  /\ stack # <<>>
  /\ Top.op = "setChannelData" /\ Top.pc = "dispatch" /\ Top.log = <<>>
  /\ Top.data # Null
  /\ Top.before.payloads[Top.handle.m_payload].data # Null
  /\ Len(channelChangeCallbacks) = 2

\* C22: lookup-or-create is atomic for listeners: whenever a listener or
\* another operation can run (between calls, and inside a call's dispatch, that
\* of a creating handle() included), every entry of channels() references a
\* Slot of its own and carries the type key and name key it is stored under,
\* both valid; the entry a handle() call is creating is such an entry from the
\* first listener on.
C22_NoHalfCreatedSlot ==
  /\ \A p \in ChannelPairs :
        LET e == channels[p[1]][p[2]]
        IN  /\ e.m_payload \in 1..Len(payloads)
            /\ e.m_typeID = p[1] /\ e.m_nameID = p[2]
            /\ HandleIsValid(e)
            /\ \A q \in ChannelPairs :
                  channels[q[1]][q[2]].m_payload = e.m_payload => q = p
  /\ \A t \in DOMAIN channels : DOMAIN channels[t] # {}
  /\ \A f \in Frames :
        (f.op = "handle" /\ f.created) => <<f.typeID, f.nameID>> \in ChannelPairs

\* C22 witness: a list-changed listener, invoked by the handle() call that is
\* creating the first Slot, has itself called handle() for another pair, and
\* that call is creating the second Slot.
C22_Witness ==
  /\ Len(stack) = 2
  /\ stack[1].op = "handle" /\ stack[1].created /\ stack[1].pc = "inCallback"
  /\ stack[2].op = "handle" /\ stack[2].created
  /\ stack[2].nameID # stack[1].nameID
  /\ stack[2].before.channels # EmptyMap

\* C23: listener lists are guarded against mutation during dispatch: while the
\* loop of a call is in progress, the list it iterates is as it was when the
\* loop began, also when a listener it invokes registers or unregisters a
\* listener of the kind being dispatched (the loop runs over a snapshot, or the
\* change waits for the loop to end), so its iterators stay valid.
C23_NoMutationDuringDispatch ==
  \A f \in Frames :
    f.pc \in {"dispatch", "inCallback"} =>
      (~f.undefined /\ DispatchList(f) = f.list)

\* The listeners call f has to invoke before it returns.
Owed(f) ==
  CASE f.op = "handle" -> IF f.created THEN channelListChangedCallbacks ELSE <<>>
    [] f.op = "setChannelData" ->
         IF f.handle.m_payload # Null THEN channelChangeCallbacks ELSE <<>>
    [] f.op = "sendSignal" -> signalListeners(signalCallbacks, f.typeID)
    [] OTHER -> <<>>

\* C24: delivery is synchronous: a handle(), setChannelData or sendSignal call
\* that is returning has made every listener invocation it causes (each
\* listener it owes one has been invoked, in order, and none is left for
\* later), invocations happen only inside the call in progress, and with
\* listeners that do not call back into the registry every call returns.
C24_SynchronousDelivery ==
  /\ [](\A f \in Frames :
          /\ f.pc = "ret" => Cbs(f.log) = Owed(f)
          /\ f.pc # "ret" => (f.i = Len(f.log) + (IF f.pc = "dispatch" THEN 1 ELSE 0)
                               /\ Cbs(f.log) = SubSeq(Owed(f), 1, Len(f.log))))
  /\ (stack # <<>>) ~> (stack = <<>>)

\* C24 witness: a setChannelData call that writes a value returns after it has
\* invoked two listeners.
C24_Witness ==
  /\ stack # <<>>
  /\ Top.op = "setChannelData" /\ Top.pc = "ret" /\ Top.data # Null
  /\ Len(Top.log) = 2 /\ Len(channelChangeCallbacks) = 2

\* C25: a channel's value is remembered until it is overwritten: whatever call
\* is in progress (handle() creating or not, sendSignal, registering or
\* unregistering a listener, channels(), a call that ended in the thread
\* assertion), a Slot that the call is not a setChannelData through a Handle of
\* holds the Data it held when the call was made, and short of the registry's
\* destruction that Data has not been destroyed.
C25_ValueKeptUntilOverwritten ==
  /\ \A f \in Frames : \A id \in 1..Len(f.before.payloads) :
        ~(f.op = "setChannelData" /\ f.handle.m_payload = id) =>
          /\ payloads[id].data = f.before.payloads[id].data
          /\ (f.op # "~CoreInterface" /\ payloads[id].data # Null) =>
                dataObjects[payloads[id].data].deleted = 0
  /\ fatal # <<>> => payloads = fatal[1].before.payloads

\* C25 witness: a value has been written to one Slot, and listeners notified of
\* it, while another Slot holds an earlier value.
C25_Witness ==
  /\ stack # <<>>
  /\ Top.op = "setChannelData" /\ Top.pc = "ret" /\ Top.log # <<>>
  /\ Top.handle.m_payload # Null /\ Top.data # Null
  /\ \E id \in 1..Len(payloads) :
        id # Top.handle.m_payload /\ payloads[id].data # Null

\* The pair a document names.
DocPair(j) ==
  <<StringID(TPJSONString(j, "typeID")), StringID(TPJSONString(j, "nameID"))>>

\* C26: saveState records the Handle's two key strings and nothing of the
\* Slot's value (Handles with the same keys give the same document, whatever
\* their Slots hold), and loadState resolves the document's pair: for a valid
\* pair the registry has not seen it creates the Slot and invokes every
\* list-changed listener exactly once; for a pair it knows it creates nothing,
\* invokes nobody and leaves the registry as it was.
C26_LoadStateCreatesOnce ==
  /\ \A a \in AnyHandleArgs, b \in AnyHandleArgs :
        (a.m_typeID = b.m_typeID /\ a.m_nameID = b.m_nameID)
          => saveState(a) = saveState(b)
  /\ \A f \in Frames :
        (f.op = "handle" /\ DOMAIN f.json # {}) =>
          LET p == DocPair(f.json)
          IN  /\ DOMAIN f.json = {"typeID", "nameID"}
              /\ f.typeID = p[1] /\ f.nameID = p[2]
              /\ (~handleRejects(p[1], p[2]) /\ p \notin PairsOf(f.before.channels)) =>
                    /\ f.created
                    /\ Len(payloads) = Len(f.before.payloads) + 1
                    /\ ChannelPairs = PairsOf(f.before.channels) \cup {p}
                    /\ Cbs(f.log) = SubSeq(channelListChangedCallbacks, 1, Len(f.log))
                    /\ f.pc = "ret" => Cbs(f.log) = channelListChangedCallbacks
              /\ p \in PairsOf(f.before.channels) =>
                    /\ ~f.created /\ f.log = <<>> /\ f.pc = "ret"
                    /\ Snapshot = f.before

\* C26 witness: the document of a Handle of the second registry, whose Slot
\* holds a value, has been loaded into the first registry, which had no
\* channel: the Slot was made and two listeners were invoked.
C26_Witness ==
  /\ stack # <<>>
  /\ Top.op = "handle" /\ DOMAIN Top.json # {} /\ Top.pc = "ret" /\ Top.created
  /\ Top.before.channels = EmptyMap
  /\ Len(Top.log) = 2
  /\ \E r \in held2 : saveState(r.h) = Top.json /\ HandleData(r.h) # Null

\* C27: every channel-changed listener invocation receives the Data that the
\* Slot holds at the moment of the invocation, not destroyed, also when an
\* earlier listener of the same dispatch has written the Slot again.
C27_ListenerGetsCurrentData ==
  [][(/\ stack # <<>>
      /\ Top.op = "setChannelData" /\ Top.pc = "dispatch"
      /\ Len(stack') = Len(stack)
      /\ Top'.pc = "inCallback")
     => LET e == Top'.log[Len(Top'.log)]
        IN  /\ e.data = payloads'[Top.handle.m_payload].data
            /\ e.data # Null => dataObjects'[e.data].deleted = 0]_vars

\* What listener cb has last been told about the Slot of call f since f began.
HeardOf(f, cb) ==
  {e \in f.heard : /\ e.cb = cb
                   /\ e.typeID = f.handle.m_typeID
                   /\ e.nameID = f.handle.m_nameID}

\* C28: listeners end up consistent with the Slot: when an outermost
\* setChannelData call on a Slot returns, every registered channel-changed
\* listener has been notified about that Slot, and the last notification it
\* received carries the Data the Slot holds now, also when listeners wrote the
\* Slot again during the dispatch.
C28_ListenersEndConsistent ==
  (Len(stack) = 1 /\ Top.op = "setChannelData" /\ Top.pc = "ret"
     /\ Top.handle.m_payload # Null) =>
    \A cb \in Range(channelChangeCallbacks) :
      /\ HeardOf(Top, cb) # {}
      /\ \A e \in HeardOf(Top, cb) : e.data = payloads[Top.handle.m_payload].data

\* The Slots the registry owns: the payloads of the entries of its channels.
OwnSlots == {channels[p[1]][p[2]].m_payload : p \in ChannelPairs}

\* C29: a registry only writes its own Slots: a setChannelData call on the
\* registry changes the Data of a Slot only if the registry owns that Slot,
\* destroys only values of its own Slots, and notifies its listeners only of
\* channels that are in its channels(); with a Handle of another registry it
\* leaves that registry's Slots as they were.
C29_OnlyOwnSlots ==
  \A f \in Frames :
    f.op = "setChannelData" =>
      /\ \A id \in 1..Len(f.before.payloads) :
            payloads[id].data # f.before.payloads[id].data => id \in OwnSlots
      /\ \A k \in 1..Len(f.log) :
            /\ <<f.log[k].typeID, f.log[k].nameID>> \in ChannelPairs
            /\ f.handle.m_payload \in OwnSlots

\* C30: re-entrant lookup is consistent: a handle(t, n) call made by a
\* list-changed listener while handle(t, n) is creating that Slot returns the
\* Handle of the Slot being created (the one the outer call returns), creates
\* nothing and invokes nobody; a nested handle() for another new pair creates
\* that pair's Slot, a different one; and every handle() call for a valid pair,
\* whatever was called from inside it, returns a valid Handle that is the entry
\* channels()[t][n] and equals every Handle returned for the pair before.
C30_ReentrantLookup ==
  /\ \A k \in 2..Len(stack) :
        LET f == stack[k - 1]
            g == stack[k]
        IN  (f.op = "handle" /\ f.created /\ g.op = "handle"
               /\ ~handleRejects(g.typeID, g.nameID)) =>
              IF g.typeID = f.typeID /\ g.nameID = f.nameID
              THEN /\ g.pc = "ret" /\ ~g.created /\ g.log = <<>>
                   /\ Snapshot = g.before
                   /\ g.result.m_payload # Null
                   /\ HandleEq(g.result, handleResult(channels, f.typeID, f.nameID))
              ELSE /\ <<g.typeID, g.nameID>> \in ChannelPairs
                   /\ g.created <=>
                        <<g.typeID, g.nameID>> \notin PairsOf(g.before.channels)
                   /\ ~HandleEq(channels[g.typeID][g.nameID],
                                channels[f.typeID][f.nameID])
  /\ \A f \in Frames :
        (f.op = "handle" /\ f.pc = "ret" /\ ~handleRejects(f.typeID, f.nameID)) =>
          /\ HandleIsValid(f.result)
          /\ f.result.m_payload # Null
          /\ f.result = channels[f.typeID][f.nameID]
          /\ \A r \in held :
                (r.typeID = f.typeID /\ r.nameID = f.nameID) => HandleEq(f.result, r.h)

\* C30 witness: a handle() call that created the registry's first Slot returns
\* after its listeners have called handle() for the same pair and for another
\* pair, whose Slot was made meanwhile.
C30_Witness ==
  /\ Len(stack) = 1
  /\ Top.op = "handle" /\ Top.pc = "ret" /\ Top.created
  /\ Top.before.channels = EmptyMap
  /\ Cardinality(ChannelPairs) = 2
  /\ \E r \in held : r.typeID = Top.typeID /\ r.nameID = Top.nameID
  /\ \E r \in held : r.nameID # Top.nameID

\* How many times x is in the list s.
Occurrences(s, x) == Cardinality({k \in 1..Len(s) : s[k] = x})

\* The kind of listener a registering or unregistering call is about.
KindOf(op) ==
  CASE op \in {"registerCallback_ChannelListChanged",
               "unregisterCallback_ChannelListChanged"} -> "channelListChanged"
    [] op \in {"registerCallback_ChannelChanged",
               "unregisterCallback_ChannelChanged"}     -> "channelChanged"
    [] op \in {"registerCallback_Signal", "unregisterCallback_Signal"} -> "signal"
    [] op \in {"signalFired_addCallback", "signalFired_removeCallback"} -> "signalFired"
    [] OTHER -> "none"

IsUnregister(op) ==
  op \in {"unregisterCallback_ChannelListChanged", "unregisterCallback_ChannelChanged",
          "unregisterCallback_Signal", "signalFired_removeCallback"}

\* The listener list of a kind in the registry snap (for signals, of type t).
ListOfKind(snap, kind, t) ==
  CASE kind = "channelListChanged" -> snap.channelListChangedCallbacks
    [] kind = "channelChanged"     -> snap.channelChangeCallbacks
    [] kind = "signal"             -> IF t \in DOMAIN snap.signalCallbacks
                                      THEN snap.signalCallbacks[t] ELSE <<>>
    [] kind = "signalFired"        -> snap.signalFired

\* The other signal lists of the registry snap.
OtherSignalLists(snap, t) ==
  [x \in (DOMAIN snap.signalCallbacks) \ {t} |-> snap.signalCallbacks[x]]

\* C31: registering and unregistering balance.  registerCallback(L) appends one
\* registration of L; unregisterCallback(L) removes exactly one registration of
\* L when there is one, so that L is left with one registration fewer and
\* every other listener with as many as before, the remaining registrations
\* keep their relative order, and the lists of the other kinds are untouched;
\* unregistering a listener that is not registered leaves every listener list
\* unchanged; and a dispatch invokes each listener once per registration it
\* still has (not at all once it has none).
C31_RegisterUnregisterBalance ==
  \A f \in Frames :
    LET kind == KindOf(f.op)
        was  == ListOfKind(f.before, kind, f.typeID)
        now  == ListOfKind(Snapshot, kind, f.typeID)
    IN
    /\ (kind # "none") =>
          /\ \A other \in {"channelListChanged", "channelChanged", "signalFired"} \ {kind} :
                ListOfKind(Snapshot, other, f.typeID) =
                  ListOfKind(f.before, other, f.typeID)
          /\ OtherSignalLists(Snapshot, f.typeID) = OtherSignalLists(f.before, f.typeID)
          /\ (kind # "signal") =>
                ListOfKind(Snapshot, "signal", f.typeID) =
                  ListOfKind(f.before, "signal", f.typeID)
    /\ (kind # "none" /\ ~IsUnregister(f.op)) => now = Append(was, f.cb)
    /\ IsUnregister(f.op) =>
          /\ IF Occurrences(was, f.cb) = 0
             THEN now = was
             ELSE \E k \in 1..Len(was) : was[k] = f.cb /\ now = RemoveAt(was, k)
          /\ \A cb \in Listeners :
                Occurrences(now, cb) =
                  Occurrences(was, cb) -
                    (IF cb = f.cb /\ Occurrences(was, cb) > 0 THEN 1 ELSE 0)
    /\ (f.pc = "ret" /\ f.op = "handle" /\ f.created) =>
          \A cb \in Listeners :
             Occurrences(Cbs(f.log), cb) = Occurrences(channelListChangedCallbacks, cb)
    /\ (f.pc = "ret" /\ f.op = "setChannelData" /\ ~setChannelDataRejects(f.handle)) =>
          \A cb \in Listeners :
             Occurrences(Cbs(f.log), cb) = Occurrences(channelChangeCallbacks, cb)
    /\ (f.pc = "ret" /\ f.op = "sendSignal") =>
          \A cb \in Listeners :
             Occurrences(Cbs(f.log), cb) =
               Occurrences(signalListeners(signalCallbacks, f.typeID), cb)

\* C31 witness: a listener registered twice, before and after another one, has
\* one of its registrations removed by unregisterCallback and the two
\* registrations left are of different listeners.
C31_Witness ==
  /\ stack # <<>>
  /\ IsUnregister(Top.op)
  /\ LET was == ListOfKind(Top.before, KindOf(Top.op), Top.typeID)
         now == ListOfKind(Snapshot, KindOf(Top.op), Top.typeID)
     IN  /\ Len(was) = 3
         /\ was[1] = Top.cb /\ was[3] = Top.cb /\ was[2] # Top.cb
         /\ Len(now) = 2 /\ now[1] # now[2]

\* C32: setChannelData(h, null) on a valid Handle is an ordinary write.  It
\* destroys the value the Slot held (once, and nothing else), leaves the Slot
\* in channels() with data() == null and every other Slot as it was, keeps h
\* valid and equal to the Handle stored under its pair, and invokes every
\* channel-changed listener exactly once, in registration order, with the keys
\* of h and a null payload.
C32_NullWriteIsOrdinary ==
  \A f \in Frames :
    (f.op = "setChannelData" /\ ~setChannelDataRejects(f.handle) /\ f.data = Null) =>
      LET id  == f.handle.m_payload
          old == f.before.payloads[id].data
      IN  /\ Len(dataObjects) = Len(f.before.dataObjects)
          /\ \A o \in 1..Len(dataObjects) :
                dataObjects[o].deleted =
                  f.before.dataObjects[o].deleted + (IF o = old THEN 1 ELSE 0)
          /\ (old # Null) => dataObjects[old].deleted = 1
          /\ channels = f.before.channels
          /\ Len(payloads) = Len(f.before.payloads)
          /\ HandleData(f.handle) = Null
          /\ \A other \in 1..Len(payloads) :
                (other # id) => payloads[other] = f.before.payloads[other]
          /\ HandleIsValid(f.handle)
          /\ <<f.handle.m_typeID, f.handle.m_nameID>> \in ChannelPairs
          /\ HandleEq(f.handle, channels[f.handle.m_typeID][f.handle.m_nameID])
          /\ Len(f.log) <= Len(channelChangeCallbacks)
          /\ \A k \in 1..Len(f.log) :
                /\ f.log[k].cb = channelChangeCallbacks[k]
                /\ f.log[k].typeID = f.handle.m_typeID
                /\ f.log[k].nameID = f.handle.m_nameID
                /\ f.log[k].data = Null
          /\ (f.pc = "ret") => Len(f.log) = Len(channelChangeCallbacks)

\* C32 witness: a null write to a Slot that held a value returns after both
\* channel-changed listeners were invoked.
C32_Witness ==
  /\ stack # <<>>
  /\ Top.op = "setChannelData" /\ Top.pc = "ret" /\ Top.data = Null
  /\ Top.handle.m_payload # Null
  /\ Top.before.payloads[Top.handle.m_payload].data # Null
  /\ Len(Top.log) = 2
  /\ Top.log[1].cb # Top.log[2].cb

\* The Handle h answers for the pair (t, n) and for no other: typeID() and
\* nameID() give t and n, is(t, n) is true and is(t2, n2) is false for every
\* other pair of keys.
AnswersFor(h, t, n) ==
  /\ h.m_typeID = t
  /\ h.m_nameID = n
  /\ \A t2 \in Keys, n2 \in Keys : is(h, t2, n2) <=> (t2 = t /\ n2 = n)

\* C33: the keys of a Handle are fixed metadata of its Slot.  Every Handle that
\* handle(t, n) returns for valid keys answers for (t, n) and for no other
\* pair, at its return and for as long as the caller holds the copy; and
\* during every later call, of whatever operation, each entry that channels()
\* had when the call began still carries the keys it is stored under, the
\* same ones as before the call.
C33_KeysAreFixed ==
  /\ \A r \in held : AnswersFor(r.h, r.typeID, r.nameID)
  /\ \A f \in Frames :
        /\ (f.op = "handle" /\ f.pc = "ret" /\ ~handleRejects(f.typeID, f.nameID))
             => AnswersFor(f.result, f.typeID, f.nameID)
        /\ \A p \in PairsOf(f.before.channels) :
              /\ p \in ChannelPairs
              /\ channels[p[1]][p[2]].m_typeID = f.before.channels[p[1]][p[2]].m_typeID
              /\ channels[p[1]][p[2]].m_nameID = f.before.channels[p[1]][p[2]].m_nameID
              /\ AnswersFor(channels[p[1]][p[2]], p[1], p[2])

\* C33 witness: two Slots exist, their Handles are held, and a value has just
\* been written through the Handle of the one made first, after the other
\* was created.
C33_Witness ==
  /\ stack # <<>>
  /\ Top.op = "setChannelData" /\ Top.pc = "ret" /\ Top.data # Null
  /\ Top.handle.m_payload = 1
  /\ Cardinality(PairsOf(Top.before.channels)) = 2
  /\ \A p \in ChannelPairs : \E r \in held : r.typeID = p[1] /\ r.nameID = p[2]

\* The signal listener map snap holds no entry with an empty list.
NoEmptySignalList(sc) == \A t \in DOMAIN sc : sc[t] # <<>>

\* C34: in the revisions that keep a signal listener list per type, the map of
\* these lists holds no entry with an empty list once an operation has
\* returned: unregisterCallback erases the entry of a type when it removes the
\* type's last listener, and sendSignal for a type that has no registration
\* leaves the map as it was.
C34_NoEmptySignalEntry ==
  (revision = "vector") =>
    /\ (stack = <<>>) => NoEmptySignalList(signalCallbacks)
    /\ \A f \in Frames :
          /\ (f.pc = "ret") => NoEmptySignalList(signalCallbacks)
          /\ (f.op = "unregisterCallback_Signal"
                /\ f.typeID \in DOMAIN f.before.signalCallbacks
                /\ f.before.signalCallbacks[f.typeID] = <<f.cb>>)
               => f.typeID \notin DOMAIN signalCallbacks
          /\ (f.op = "sendSignal" /\ f.typeID \notin DOMAIN f.before.signalCallbacks)
               => signalCallbacks = f.before.signalCallbacks

====
